---------------------------- MODULE Spec2Model ----------------------------
(***************************************************************************)
(* A model of package oid (JesseCoretta/go-oid): the NameAndNumberForm     *)
(* parser, the ObjectIdentifier value with its alternate names, and the    *)
(* ObjectIdentifierMap registry.                                           *)
(*                                                                         *)
(* A Go string is modelled as a sequence of one-character strings, so      *)
(* that parsing, trimming, splitting and integer formatting are computed   *)
(* character by character, as the code computes them.  Indices passed to   *)
(* the string helpers are 0-based, as in the Go source.  A run-time panic  *)
(* (slice bounds out of range, index out of range, nil dereference) is an  *)
(* outcome of its own, distinct from a returned error.                     *)
(***************************************************************************)
EXTENDS Integers, Sequences, FiniteSets, TLC

VARIABLES
    op,        \* the operation the client called last
    raw,       \* the string argument of that call
    form,      \* how the client wrote that string: "text", "nanf", "dotted", "fields"
    given,     \* the arc sequence the client rendered into it (<<>> for "text")
    names,     \* the argument list of the last SetAltNames call
    oid,       \* the *ObjectIdentifier the client holds (Nil, or the object)
    nanf,      \* the *NameAndNumberForm the client holds (Nil, or the object)
    err,       \* the error the last call returned ("none" when nil)
    panicked,  \* TRUE once a call has panicked
    reg,       \* the ObjectIdentifierMap: a function from its keys to values
    key,       \* the key argument of the last Set or New call
    term,      \* the argument of the last Get or Exists call
    ret,       \* what the last Get or Exists call returned
    pc,        \* per goroutine: the statement it executes next
    mut,       \* per goroutine: the mutex its current call created
    locked,    \* the mutexes that are currently locked
    wkey,      \* per writer: the key of its current call
    wval,      \* per writer: the value of its current call
    todo,      \* the reader's range loop: the keys not yet visited
    fatal      \* TRUE once the runtime has thrown on a detected map race

vars == <<op, raw, form, given, names, oid, nanf, err, panicked, reg, key, term, ret,
          pc, mut, locked, wkey, wval, todo, fatal>>

oidVars  == <<op, raw, form, given, names, oid, nanf, err, panicked>>
regVars  == <<reg, key, term, ret>>
concVars == <<pc, mut, locked, wkey, wval, todo, fatal>>

\* The nil pointer (a record, as every pointer target is one).
Nil == [nil |-> TRUE]

-----------------------------------------------------------------------------
(* Characters and the standard-library string helpers the package uses.    *)

Lower == {"a","b","c","d","e","f","g","h","i","j","k","l","m",
          "n","o","p","q","r","s","t","u","v","w","x","y","z"}
Upper == {"A","B","C","D","E","F","G","H","I","J","K","L","M",
          "N","O","P","Q","R","S","T","U","V","W","X","Y","Z"}
Digit == {"0","1","2","3","4","5","6","7","8","9"}
\* The ASCII characters strings.Fields takes for white space.
Space == {" ", "\t", "\n", "\r"}

DigitVal(c) ==
    CASE c = "0" -> 0 [] c = "1" -> 1 [] c = "2" -> 2 [] c = "3" -> 3
      [] c = "4" -> 4 [] c = "5" -> 5 [] c = "6" -> 6 [] c = "7" -> 7
      [] c = "8" -> 8 [] c = "9" -> 9

DigitChar(d) ==
    CASE d = 0 -> "0" [] d = 1 -> "1" [] d = 2 -> "2" [] d = 3 -> "3"
      [] d = 4 -> "4" [] d = 5 -> "5" [] d = 6 -> "6" [] d = 7 -> "7"
      [] d = 8 -> "8" [] d = 9 -> "9"

ToLowerChar(c) ==
    CASE c = "A" -> "a" [] c = "B" -> "b" [] c = "C" -> "c" [] c = "D" -> "d"
      [] c = "E" -> "e" [] c = "F" -> "f" [] c = "G" -> "g" [] c = "H" -> "h"
      [] c = "I" -> "i" [] c = "J" -> "j" [] c = "K" -> "k" [] c = "L" -> "l"
      [] c = "M" -> "m" [] c = "N" -> "n" [] c = "O" -> "o" [] c = "P" -> "p"
      [] c = "Q" -> "q" [] c = "R" -> "r" [] c = "S" -> "s" [] c = "T" -> "t"
      [] c = "U" -> "u" [] c = "V" -> "v" [] c = "W" -> "w" [] c = "X" -> "x"
      [] c = "Y" -> "y" [] c = "Z" -> "z" [] OTHER -> c

\* strings.EqualFold on ASCII text: equal after case folding.
EqualFold(s, t) ==
    /\ Len(s) = Len(t)
    /\ \A i \in 1..Len(s) : ToLowerChar(s[i]) = ToLowerChar(t[i])

\* Go's s[lo:hi] is defined only for 0 <= lo <= hi <= len(s); it panics otherwise.
SliceOK(s, lo, hi) == 0 <= lo /\ lo <= hi /\ hi <= Len(s)
Slice(s, lo, hi) == SubSeq(s, lo + 1, hi)

\* strings.IndexRune: the 0-based index of the first c in s, or -1.
IndexRune(s, c) ==
    IF \E i \in 1..Len(s) : s[i] = c
    THEN (CHOOSE i \in 1..Len(s) :
              s[i] = c /\ \A j \in 1..(i-1) : s[j] # c) - 1
    ELSE -1

\* strings.TrimLeft / strings.TrimRight with a cutset.
RECURSIVE TrimLeft(_, _)
TrimLeft(s, cutset) ==
    IF s # <<>> /\ Head(s) \in cutset THEN TrimLeft(Tail(s), cutset) ELSE s

RECURSIVE TrimRight(_, _)
TrimRight(s, cutset) ==
    IF s # <<>> /\ s[Len(s)] \in cutset
    THEN TrimRight(SubSeq(s, 1, Len(s) - 1), cutset) ELSE s

\* strings.Fields: the maximal runs of non-space characters.
RECURSIVE FieldsFrom(_, _, _)
FieldsFrom(s, cur, acc) ==
    IF s = <<>>
    THEN IF cur = <<>> THEN acc ELSE Append(acc, cur)
    ELSE IF Head(s) \in Space
         THEN FieldsFrom(Tail(s), <<>>,
                         IF cur = <<>> THEN acc ELSE Append(acc, cur))
         ELSE FieldsFrom(Tail(s), Append(cur, Head(s)), acc)

Fields(s) == FieldsFrom(s, <<>>, <<>>)

\* strings.Split(s, sep) for a one-character sep: len = separators + 1.
RECURSIVE SplitFrom(_, _, _, _)
SplitFrom(s, sep, cur, acc) ==
    IF s = <<>> THEN Append(acc, cur)
    ELSE IF Head(s) = sep
         THEN SplitFrom(Tail(s), sep, <<>>, Append(acc, cur))
         ELSE SplitFrom(Tail(s), sep, Append(cur, Head(s)), acc)

Split(s, sep) == SplitFrom(s, sep, <<>>, <<>>)

\* strings.Join with a separator string.
RECURSIVE Join(_, _)
Join(ss, sep) ==
    IF ss = <<>> THEN <<>>
    ELSE IF Len(ss) = 1 THEN ss[1]
    ELSE ss[1] \o sep \o Join(Tail(ss), sep)

\* isDigit: every character is a decimal digit (true of the empty string).
isDigit(val) == \A i \in 1..Len(val) : val[i] \in Digit

\* The value of a string of digits, most significant first.
RECURSIVE DigitsVal(_, _)
DigitsVal(s, acc) ==
    IF s = <<>> THEN acc ELSE DigitsVal(Tail(s), 10 * acc + DigitVal(Head(s)))

\* strconv.Atoi: an optional sign, then one or more digits; anything else is
\* a syntax error, whose value is 0.  (The digit strings of this model are
\* far shorter than the 19 digits at which a 64-bit int would overflow.)
AtoiBody(s) == IF s # <<>> /\ Head(s) \in {"+", "-"} THEN Tail(s) ELSE s
AtoiOK(s)  == AtoiBody(s) # <<>> /\ isDigit(AtoiBody(s))
atoi(s) ==
    IF ~AtoiOK(s) THEN 0
    ELSE IF Head(s) = "-" THEN 0 - DigitsVal(AtoiBody(s), 0)
    ELSE DigitsVal(AtoiBody(s), 0)

\* strconv.Itoa.
RECURSIVE NatDigits(_)
NatDigits(n) ==
    IF n < 10 THEN <<DigitChar(n)>>
    ELSE Append(NatDigits(n \div 10), DigitChar(n % 10))

itoa(n) == IF n < 0 THEN <<"-">> \o NatDigits(0 - n) ELSE NatDigits(n)

-----------------------------------------------------------------------------
(* ObjectIdentifier.                                                       *)

\* new(ObjectIdentifier): the zero value, all three slices empty.
EmptyOID == [nANF |-> <<>>, aka |-> <<>>, ints |-> <<>>]

\* ObjectIdentifier.ASN1().String(): the arcs in decimal, joined by dots.
ToDotted(x) == Join([i \in 1..Len(x.ints) |-> itoa(x.ints[i])], <<".">>)

\* ObjectIdentifier.String().
String(x) == <<"{", " ">> \o Join(x.nANF, <<" ">>) \o <<" ", "}">>

\* intSliceEqual: false when both slices are empty.
intSliceEqual(s1, s2) ==
    /\ ~(Len(s1) = 0 /\ Len(s2) = 0)
    /\ Len(s1) = Len(s2)
    /\ \A i \in 1..Len(s1) : s1[i] = s2[i]

\* strSliceEqual: false when both slices are empty.
strSliceEqual(s1, s2) ==
    /\ ~(Len(s1) = 0 /\ Len(s2) = 0)
    /\ Len(s1) = Len(s2)
    /\ \A i \in 1..Len(s1) : s1[i] = s2[i]

\* ObjectIdentifier.Equal on a tagged argument: []int, string or []string.
Equal(x, y) ==
    CASE y.type = "ints"    -> intSliceEqual(y.v, x.ints)
      [] y.type = "string"  -> \/ ToDotted(x) = y.v
                               \/ String(x) = y.v
                               \/ \E i \in 1..Len(x.aka) : EqualFold(x.aka[i], y.v)
      [] y.type = "strings" -> strSliceEqual(x.nANF, y.v)
      [] OTHER              -> FALSE

\* ObjectIdentifier.Valid reads o.ints[0] without checking that there is
\* one: on a value with no arcs (and equally many names) it panics.
ValidPanics(x) == Len(x.nANF) = Len(x.ints) /\ Len(x.ints) = 0

ValidNoRootCheck(x) ==
    /\ Len(x.nANF) = Len(x.ints)
    /\ \A i \in 1..Len(x.ints) : x.ints[i] >= 0

\* ObjectIdentifier.Valid, where it does not panic.  The receiver is a value,
\* so o.IsZero() (a nil test of its address) is always false.
Valid(x) ==
    /\ Len(x.nANF) = Len(x.ints)
    /\ \A i \in 1..Len(x.ints) : x.ints[i] >= 0
    /\ Len(x.ints) > 0
    /\ 0 <= x.ints[1] /\ x.ints[1] <= 2

\* The character class the parsers allow in an identifier.
IdentChar(ch) == ch \in Lower \/ ch \in Upper \/ ch \in Digit \/ ch = "-"

\* One field of NewObjectIdentifier's loop: "ok" with the arc's number, "err"
\* for a returned error, "panic" for a run-time panic.
ParseField(f) ==
    IF isDigit(f) THEN [kind |-> "ok", num |-> atoi(f)]
    ELSE
      LET idxr == IndexRune(f, ")")
          idxl == IndexRune(f, "(")
      IN  IF idxr # Len(f) - 1 THEN [kind |-> "err", num |-> 0]
          ELSE IF \E c \in 0..(idxl - 1) : ~IdentChar(f[c + 1])
               THEN [kind |-> "err", num |-> 0]
          ELSE IF ~SliceOK(f, idxl + 1, idxr - 1)
               THEN [kind |-> "panic", num |-> 0]
          ELSE IF ~isDigit(Slice(f, idxl + 1, idxr - 1))
               \* the error message formats f[i][idxl], which panics for idxl = -1
               THEN [kind |-> IF idxl = -1 THEN "panic" ELSE "err", num |-> 0]
          ELSE [kind |-> "ok", num |-> atoi(Slice(f, idxl + 1, idxr))]

\* The field loop of NewObjectIdentifier over f[i..], building t.
RECURSIVE ParseFields(_, _)
ParseFields(f, t) ==
    IF f = <<>> THEN [kind |-> "ok", t |-> t]
    ELSE LET r == ParseField(Head(f))
         IN  IF r.kind # "ok" THEN [kind |-> r.kind, t |-> t]
             ELSE ParseFields(Tail(f),
                      [t EXCEPT !.ints = Append(@, r.num),
                                !.nANF = Append(@, Head(f))])

RawFieldsNoTrim(s) == Fields(s)

\* The fields NewObjectIdentifier reads from its input.
RawFields(s) == Fields(TrimRight(TrimLeft(s, {"{", " "}), {" ", "}"}))

MinRawLen == 6

\* NewObjectIdentifier: the returned pointer, the error ("none" for nil) and
\* whether the call panicked.  Past the length check o is a new, empty
\* instance, and that is what every later error return carries.
NewObjectIdentifier(s) ==
    IF Len(s) < MinRawLen THEN [o |-> Nil, err |-> "short", panic |-> FALSE]
    ELSE LET r == ParseFields(RawFields(s), EmptyOID)
         IN  IF r.kind = "panic" THEN [o |-> Nil, err |-> "none", panic |-> TRUE]
             ELSE IF r.kind = "err"
                  THEN [o |-> EmptyOID, err |-> "field", panic |-> FALSE]
             ELSE IF ValidPanics(r.t)
                  THEN [o |-> Nil, err |-> "none", panic |-> TRUE]
             ELSE IF ~Valid(r.t)
                  THEN [o |-> EmptyOID, err |-> "valid", panic |-> FALSE]
             ELSE [o |-> r.t, err |-> "none", panic |-> FALSE]

\* oidToIntSlices on a string: split on dots, Atoi each piece; any failure
\* yields the empty slice.
oidToIntSlices(s) ==
    LET arcs == Split(s, ".")
    IN  IF \E i \in 1..Len(arcs) : ~AtoiOK(arcs[i]) THEN <<>>
        ELSE [i \in 1..Len(arcs) |-> atoi(arcs[i])]

\* The loops of SetAltNames from outer index i (0-based).  The inner loop
\* advances the outer index i, not j, up to len(o.aka), comparing name[0]
\* and skipping nothing; name[i] is then read, past the end of name when
\* len(o.aka) >= len(name).
RECURSIVE SetAltNamesLoop(_, _, _)
SetAltNamesLoop(aka, name, i) ==
    IF ~(i < Len(name)) THEN [aka |-> aka, panic |-> FALSE]
    ELSE LET i2 == IF i < Len(aka) THEN Len(aka) ELSE i
         IN  IF ~(i2 < Len(name)) THEN [aka |-> aka, panic |-> TRUE]
             ELSE SetAltNamesLoop(Append(aka, name[i2 + 1]), name, i2 + 1)

SetAltNames(x, name) == SetAltNamesLoop(x.aka, name, 0)

-----------------------------------------------------------------------------
(* NameAndNumberForm.                                                      *)

\* The identifier loop of parseNaNFstr from index c (0-based), bounded by
\* len(x[:idx-1]): "ok", or "err" at the first bad character.
RECURSIVE IdentLoop(_, _, _)
IdentLoop(x, idx, c) ==
    IF ~(c < idx - 1) THEN "ok"
    ELSE LET ch == x[c + 1]
         IN  IF c = 0 /\ ch \notin Lower THEN "err"
             ELSE IF ~IdentChar(ch) THEN "err"
             \* the trailing-hyphen test, for the index the loop never reaches
             ELSE IF c = idx - 1 /\ ch = "-" THEN "err"
             ELSE IdentLoop(x, idx, c + 1)

\* parseNaNFstr.  nanf is allocated once the parentheses are found, so the
\* later error returns carry a non-nil, partly filled instance.
parseNaNFstr(x) ==
    IF Len(x) = 0 THEN [nanf |-> Nil, err |-> "empty", panic |-> FALSE]
    ELSE IF x[Len(x)] # ")" THEN [nanf |-> Nil, err |-> "close", panic |-> FALSE]
    ELSE LET idx == IndexRune(x, "(")
             n   == Slice(x, idx + 1, Len(x) - 1)
             new == [identifier |-> <<>>, primaryIdentifier |-> 0]
         IN  IF idx = -1 THEN [nanf |-> Nil, err |-> "open", panic |-> FALSE]
             ELSE IF ~isDigit(n) THEN [nanf |-> new, err |-> "number", panic |-> FALSE]
             \* x[:idx-1] in the loop condition panics for idx = 0
             ELSE IF ~SliceOK(x, 0, idx - 1)
                  THEN [nanf |-> Nil, err |-> "none", panic |-> TRUE]
             ELSE IF IdentLoop(x, idx, 0) = "err"
                  THEN [nanf |-> [new EXCEPT !.primaryIdentifier = atoi(n)],
                        err |-> "identifier", panic |-> FALSE]
             ELSE [nanf |-> [identifier |-> Slice(x, 0, idx),
                             primaryIdentifier |-> atoi(n)],
                   err |-> "none", panic |-> FALSE]

\* NewNameAndNumberForm on a string argument.
NewNameAndNumberForm(x) ==
    IF ~isDigit(x) THEN parseNaNFstr(x)
    ELSE [nanf |-> [identifier |-> <<>>, primaryIdentifier |-> atoi(x)],
          err |-> "none", panic |-> FALSE]

\* NameAndNumberForm.String().
NaNFString(a) ==
    IF Len(a.identifier) = 0 THEN itoa(a.primaryIdentifier)
    ELSE a.identifier \o <<"(">> \o itoa(a.primaryIdentifier) \o <<")">>

-----------------------------------------------------------------------------
(* The inputs of the client.                                               *)

MaxFieldLen == 4
MaxPadLen   == 6
MaxArcs     == 2
MaxArcNum   == 10
MaxAka      == 2

SeqsUpTo(S, n) == UNION {[1..k -> S] : k \in 0..n}

\* One of each character class the parsers tell apart: digits (1 is a legal
\* root arc, 3 is not), lower and upper case letters, the hyphen, the two
\* parentheses, and a character no identifier may hold.
FieldAlphabet == {"1", "3", "a", "A", "-", "(", ")", "."}

AllFields == SeqsUpTo(FieldAlphabet, MaxFieldLen) \ {<<>>}

\* "{ f1 f2 ... }".
Braced(fs) == <<"{", " ">> \o Join(fs, <<" ">>) \o <<" ", "}">>

Example1Foo    == <<"{"," ","1","F","o","o","(","1",")"," ","}">>
ExampleFooBar  == <<"{"," ","f","o","o","(","3",")"," ","b","a","r","(","6",")"," ","}">>
ExampleSpaced  == <<"1"," ","3"," ","6"," ","1"," ","5"," ","5"," ","7"," ","3"," ","1">>
ExampleInternet ==
    Braced(<<<<"i","s","o","(","1",")">>,
             <<"i","d","e","n","t","i","f","i","e","d","-">>
               \o <<"o","r","g","a","n","i","z","a","t","i","o","n","(","3",")">>,
             <<"d","o","d","(","6",")">>,
             <<"i","n","t","e","r","n","e","t","(","1",")">>>>)

SpecExamples == {Example1Foo, ExampleFooBar, ExampleSpaced, ExampleInternet}

\* Texts handed to NewObjectIdentifier as they are: every field alone in
\* braces, every field after a first arc, braces and blanks only, and the
\* examples of the specification.
TextInputs ==
    {Braced(<<f>>) : f \in AllFields}
      \cup {Braced(<<<<"1">>, f>>) : f \in AllFields}
      \cup SeqsUpTo({"{", " ", "}"}, MaxPadLen)
      \cup SpecExamples

\* Texts handed to NewNameAndNumberForm.
ArcInputs == AllFields \cup {<<>>, <<"1","F","o","o","(","1",")">>}

\* Valid arc sequences: a root arc of 0, 1 or 2, every arc a number with or
\* without a well-formed identifier.
Idents == {<<>>, <<"a">>, <<"a", "-", "B", "1">>}
Arcs == [identifier : Idents, primaryIdentifier : 0..MaxArcNum]
ArcSeqs ==
    {a \in SeqsUpTo(Arcs, MaxArcs) :
        a # <<>> /\ a[1].primaryIdentifier \in 0..2}
IntSeqs ==
    {v \in SeqsUpTo(0..MaxArcNum, MaxArcs) : v # <<>> /\ v[1] \in 0..2}

ArcStrings(a) == [i \in 1..Len(a) |-> NaNFString(a[i])]
ArcInts(a)    == [i \in 1..Len(a) |-> a[i].primaryIdentifier]
IntStrings(v) == [i \in 1..Len(v) |-> itoa(v[i])]
Dotted(v)     == Join(IntStrings(v), <<".">>)

\* Arguments of SetAltNames.
NameLists == {<<<<"x">>>>, <<<<"X">>>>, <<<<"y">>>>,
              <<<<"x">>, <<"x">>>>, <<<<"x">>, <<"y">>>>}

-----------------------------------------------------------------------------
(* The client of the value types: it constructs one value and then adds    *)
(* alternate names to it.                                                  *)

NoReg == <<>>
RegInit ==
    /\ reg = NoReg /\ key = <<>> /\ term = Nil /\ ret = Nil
ConcInit ==
    /\ pc = <<>> /\ mut = <<>> /\ locked = {} /\ wkey = <<>> /\ wval = <<>>
    /\ todo = {} /\ fatal = FALSE

Init ==
    /\ op = "start" /\ raw = <<>> /\ form = "text" /\ given = <<>>
    /\ names = <<>> /\ oid = Nil /\ nanf = Nil /\ err = "none"
    /\ panicked = FALSE
    /\ RegInit /\ ConcInit

\* o, err = NewObjectIdentifier(s)
CallNewObjectIdentifier(s, fm, a) ==
    LET r == NewObjectIdentifier(s)
    IN  /\ op' = "NewObjectIdentifier"
        /\ raw' = s /\ form' = fm /\ given' = a
        /\ oid' = r.o /\ err' = r.err /\ panicked' = r.panic
        /\ UNCHANGED <<names, nanf, regVars, concVars>>

ParseText ==
    /\ op = "start"
    /\ \E s \in TextInputs : CallNewObjectIdentifier(s, "text", <<>>)

\* the client renders a valid arc sequence with String() and parses that
ParseRendered ==
    /\ op = "start"
    /\ \E a \in ArcSeqs :
          CallNewObjectIdentifier(
              String([EmptyOID EXCEPT !.nANF = ArcStrings(a)]), "nanf", a)

\* the client writes a valid arc sequence in dotted notation and parses that
ParseDotted ==
    /\ op = "start"
    /\ \E v \in IntSeqs : CallNewObjectIdentifier(Dotted(v), "dotted", v)

\* the client writes the same arcs as blank-separated fields in braces
ParseDottedAsFields ==
    /\ op = "start"
    /\ \E v \in IntSeqs :
          CallNewObjectIdentifier(Braced(IntStrings(v)), "fields", v)

\* ints = oidToIntSlices(s) on a dotted string
ConvertDotted ==
    /\ op = "start"
    /\ \E v \in IntSeqs :
          /\ op' = "oidToIntSlices"
          /\ raw' = Dotted(v) /\ form' = "dotted" /\ given' = v
          /\ ret' = [ints |-> oidToIntSlices(Dotted(v))]
          /\ UNCHANGED <<names, oid, nanf, err, panicked, reg, key, term, concVars>>

\* nanf, err = NewNameAndNumberForm(x)
ParseArc ==
    /\ op = "start"
    /\ \E x \in ArcInputs :
          LET r == NewNameAndNumberForm(x)
          IN  /\ op' = "NewNameAndNumberForm"
              /\ raw' = x
              /\ nanf' = r.nanf /\ err' = r.err /\ panicked' = r.panic
              /\ UNCHANGED <<form, given, names, oid, regVars, concVars>>

\* o.SetAltNames(name...) on the object a successful parse returned
AddAltNames ==
    /\ oid # Nil /\ err = "none" /\ ~panicked
    /\ Len(oid.aka) < MaxAka
    /\ \E name \in NameLists :
          LET r == SetAltNames(oid, name)
          IN  /\ op' = "SetAltNames"
              /\ names' = name
              /\ oid' = [oid EXCEPT !.aka = r.aka]
              /\ panicked' = r.panic
              /\ UNCHANGED <<raw, form, given, nanf, err, regVars, concVars>>

Next ==
    \/ ParseText
    \/ ParseRendered
    \/ ParseDotted
    \/ ParseDottedAsFields
    \/ ConvertDotted
    \/ ParseArc
    \/ AddAltNames

Spec == Init /\ [][Next]_vars

-----------------------------------------------------------------------------
(* Properties of the parsers and of ObjectIdentifier.                      *)

\* The grammar of an identifier(number) field: an opening parenthesis, the
\* closing one as the final character, digits between them, and an
\* identifier that starts with a lowercase letter, continues with letters,
\* digits and hyphens, and does not end in a hyphen.
WellFormedArc(f) ==
    LET idxl == IndexRune(f, "(")
        idxr == IndexRune(f, ")")
    IN  /\ idxl >= 1
        /\ idxr = Len(f) - 1
        /\ idxl < idxr
        /\ isDigit(Slice(f, idxl + 1, idxr))
        /\ f[1] \in Lower
        /\ \A c \in 1..idxl : IdentChar(f[c])
        /\ f[idxl] # "-"

ParseCompleted == op = "NewObjectIdentifier" /\ ~panicked

\* C1: every identifier(number) field accepted by NewNameAndNumberForm or
\* as a field of NewObjectIdentifier satisfies the whole grammar, a field
\* that breaks it makes the call return an error, and "{ 1Foo(1) }" is
\* rejected.
C1_AcceptedFieldsWellFormed ==
    /\ (op = "NewObjectIdentifier" /\ raw = Example1Foo)
          => (~panicked /\ err # "none")
    /\ (op = "NewObjectIdentifier" /\ Len(raw) >= MinRawLen)
          => LET f == RawFields(raw)
                 bad == \E i \in 1..Len(f) :
                            ~isDigit(f[i]) /\ ~WellFormedArc(f[i])
             IN  bad => (~panicked /\ err # "none")
    /\ (op = "NewNameAndNumberForm" /\ ~isDigit(raw) /\ ~WellFormedArc(raw))
          => (~panicked /\ err # "none")

\* C2: an ObjectIdentifier returned without an error has at least one arc,
\* one number and one name per field of the input, a root arc of 0, 1 or 2
\* and no negative arc; Valid() is true of it, also after SetAltNames calls.
C2_ParsedOIDValid ==
    (op \in {"NewObjectIdentifier", "SetAltNames"} /\ oid # Nil /\ err = "none")
        => /\ Len(oid.ints) >= 1
           /\ Len(oid.ints) = Len(RawFields(raw))
           /\ Len(oid.nANF) = Len(RawFields(raw))
           /\ oid.ints[1] \in {0, 1, 2}
           /\ \A i \in 1..Len(oid.ints) : oid.ints[i] >= 0
           /\ ~ValidPanics(oid) /\ Valid(oid)

\* C2 witness: a two-arc OID parsed without error, after a SetAltNames call
\* that returned normally and left it with an alternate name.
C2_Witness ==
    /\ op = "SetAltNames" /\ ~panicked /\ err = "none" /\ oid # Nil
    /\ Len(oid.ints) = 2 /\ Len(oid.aka) >= 1 /\ oid.ints[2] > 2

\* C3: NewObjectIdentifier never panics: it returns a valid OID or an error;
\* an input of braces and blanks of length 6 or more fails the validity
\* check, and a field with empty parentheses is rejected with an error.
C3_ParseTotal ==
    op = "NewObjectIdentifier"
        => /\ ~panicked
           /\ err = "none" => (oid # Nil /\ Valid(oid))
           /\ (Len(raw) >= MinRawLen /\ RawFields(raw) = <<>>) => err = "valid"
           /\ (Len(raw) >= MinRawLen /\ RawFields(raw) = <<<<"a", "(", ")">>>>)
                 => err # "none"

\* C4: whenever NewObjectIdentifier returns an error, the pointer it returns
\* with it is nil.
C4_ErrorReturnsNil ==
    (ParseCompleted /\ err # "none") => oid = Nil

\* C5: parsing the rendering "{ arc1 arc2 ... }" of a valid arc sequence
\* succeeds, and the result equals the sequence on the arc strings and on
\* the arc numbers.
C5_NaNFRoundTrip ==
    (op = "NewObjectIdentifier" /\ form = "nanf")
        => /\ ~panicked /\ err = "none" /\ oid # Nil
           /\ Equal(oid, [type |-> "strings", v |-> ArcStrings(given)])
           /\ Equal(oid, [type |-> "ints", v |-> ArcInts(given)])

C7_AltNamesUnique ==
    (op = "SetAltNames")
        => /\ ~panicked
           /\ \A i, j \in 1..Len(oid.aka) :
                  i < j => ~EqualFold(oid.aka[i], oid.aka[j])

-----------------------------------------------------------------------------
(* ObjectIdentifierMap, called by one goroutine.                           *)

\* ObjectIdentifierMap.Set: o[key] = x.
Set(m, k, x) == (k :> x) @@ m

NewUnchecked(m, k, s) ==
    LET r == NewObjectIdentifier(s)
    IN  [m |-> IF r.panic THEN m ELSE (k :> r.o) @@ m,
         err |-> r.err, panic |-> r.panic]

\* ObjectIdentifierMap.New: the map is written only when the parse returned
\* no error.
New(m, k, s) ==
    LET r == NewObjectIdentifier(s)
    IN  [m |-> IF r.panic \/ r.err # "none" THEN m ELSE (k :> r.o) @@ m,
         err |-> r.err, panic |-> r.panic]

\* The range loop of ObjectIdentifierMap.Get over the keys in the order the
\* runtime yields them.  v.Equal has a value receiver: the call dereferences
\* v and panics when v is nil.
RECURSIVE Get(_, _, _)
Get(m, order, t) ==
    IF order = <<>> THEN [v |-> Nil, found |-> FALSE, panic |-> FALSE]
    ELSE LET k == Head(order)
             v == m[k]
         IN  IF v = Nil THEN [v |-> Nil, found |-> FALSE, panic |-> TRUE]
             ELSE IF Equal(v, t) THEN [v |-> v, found |-> v # Nil, panic |-> FALSE]
             ELSE IF t.type = "string" /\ EqualFold(k, t.v)
                  THEN [v |-> v, found |-> v # Nil, panic |-> FALSE]
             ELSE Get(m, Tail(order), t)

\* ObjectIdentifierMap.Exists: the second result of Get.
Exists(m, order, t) ==
    LET r == Get(m, order, t)
    IN  [v |-> Nil, found |-> r.found, panic |-> r.panic]

\* The orders in which a range loop may visit the keys of m.
Orders(m) ==
    {q \in [1..Cardinality(DOMAIN m) -> DOMAIN m] :
        \A i, j \in 1..Cardinality(DOMAIN m) : i # j => q[i] # q[j]}

RegKeys == {<<"k">>, <<"j">>}

OidA == NewObjectIdentifier(Braced(<<<<"1">>, <<"3">>>>)).o
OidB ==
    LET x == NewObjectIdentifier(Braced(<<<<"a","(","1",")">>>>)).o
    IN  [x EXCEPT !.aka = SetAltNames(x, <<<<"x">>>>).aka]

\* Values a caller may hand to Set: nil, a new empty instance, parsed OIDs.
SetValues == {Nil, EmptyOID, OidA, OidB}

\* Inputs of New: two that parse, one that fails the validity check, one
\* that fails in a field, one that is too short.
NewInputs == {Braced(<<<<"1">>, <<"3">>>>), Braced(<<<<"a","(","1",")">>>>),
              Braced(<<<<"3">>, <<"3">>>>), Braced(<<<<"1">>, <<".">>>>),
              Braced(<<<<"1">>>>)}

\* Arguments of Get and Exists: keys in either case, the dotted form, the
\* NameAndNumberForm text, an alternate name, a []int and a []string.
Terms ==
    {[type |-> "string", v |-> w] :
        w \in {<<"k">>, <<"K">>, <<"j">>, <<"1", ".", "3">>, String(OidB),
               <<"X">>}}
      \cup {[type |-> "ints", v |-> <<1, 3>>],
            [type |-> "strings", v |-> <<<<"a","(","1",")">>>>]}

RegClientInit ==
    /\ op = "start" /\ raw = <<>> /\ form = "text" /\ given = <<>>
    /\ names = <<>> /\ oid = Nil /\ nanf = Nil /\ err = "none"
    /\ panicked = FALSE

InitReg == RegClientInit /\ RegInit /\ ConcInit

regFrame == <<form, given, names, oid, nanf, concVars>>

\* m.Set(k, x)
CallSet ==
    /\ ~panicked
    /\ \E k \in RegKeys, x \in SetValues :
          /\ op' = "Set" /\ key' = k
          /\ reg' = Set(reg, k, x)
          /\ err' = "none"
          /\ UNCHANGED <<raw, term, ret, panicked, regFrame>>

\* err = m.New(k, s)
CallNew ==
    /\ ~panicked
    /\ \E k \in RegKeys, s \in NewInputs :
          LET r == New(reg, k, s)
          IN  /\ op' = "New" /\ key' = k /\ raw' = s
              /\ reg' = r.m /\ err' = r.err /\ panicked' = r.panic
              /\ UNCHANGED <<term, ret, regFrame>>

\* v, found = m.Get(t)
CallGet ==
    /\ ~panicked
    /\ \E t \in Terms, order \in Orders(reg) :
          LET r == Get(reg, order, t)
          IN  /\ op' = "Get" /\ term' = t
              /\ ret' = [v |-> r.v, found |-> r.found]
              /\ panicked' = r.panic
              /\ err' = "none"
              /\ UNCHANGED <<raw, reg, key, regFrame>>

\* found = m.Exists(t)
CallExists ==
    /\ ~panicked
    /\ \E t \in Terms, order \in Orders(reg) :
          LET r == Exists(reg, order, t)
          IN  /\ op' = "Exists" /\ term' = t
              /\ ret' = [v |-> r.v, found |-> r.found]
              /\ panicked' = r.panic
              /\ err' = "none"
              /\ UNCHANGED <<raw, reg, key, regFrame>>

NextReg == CallSet \/ CallNew \/ CallGet \/ CallExists

SpecReg == InitReg /\ [][NextReg]_vars

\* C8: a New call that fails leaves the map as it was, for every key; one
\* that succeeds changes no entry but the one at its key.
C8_FailedNewKeepsRegistry ==
    [][ (op' = "New")
          => IF panicked' \/ err' # "none"
             THEN reg' = reg
             ELSE /\ DOMAIN reg' = DOMAIN reg \cup {key'}
                  /\ reg'[key'] # Nil
                  /\ \A k \in DOMAIN reg \ {key'} : reg'[k] = reg[k] ]_vars

\* C8 witness: a New call has failed on a key that holds a parsed OID, while
\* the other key holds an entry too.
C8_Witness ==
    /\ op = "New" /\ err # "none" /\ ~panicked
    /\ DOMAIN reg = RegKeys
    /\ reg[key] = OidA

\* C9: Get and Exists return normally for every term, also on a map that
\* holds nil values, and Get never returns found together with nil.
C9_GetNeverCrashes ==
    (op \in {"Get", "Exists"})
        => /\ ~panicked
           /\ ~(ret.found /\ ret.v = Nil /\ op = "Get")

-----------------------------------------------------------------------------
(* ObjectIdentifierMap, shared by goroutines: two that call Set and New    *)
(* and one that calls Get.  A map write is not atomic: it begins and it    *)
(* ends.  A write that begins while another write or a range loop is in    *)
(* progress, and a range step taken during a write, are data races: the    *)
(* runtime either detects the race and throws, or carries on.              *)

Writers == {"w1", "w2"}
Reader  == "r"
Procs   == Writers \cup {Reader}

SharedMutex(p) == "registry"

\* mut := &sync.Mutex{}: a new mutex for this call, which no other call can
\* name; a goroutine runs one call at a time, so it is named after it.
NewMutex(p) == p

ConcSetValues == {OidA}
ConcNewInputs == {Braced(<<<<"a","(","1",")">>>>)}
ConcTerms == {[type |-> "string", v |-> <<"k">>],
              [type |-> "ints", v |-> <<1, 3>>]}

InitConc ==
    /\ RegClientInit /\ RegInit
    /\ pc = [p \in Procs |-> "idle"]
    /\ mut = [p \in Writers |-> "none"]
    /\ locked = {}
    /\ wkey = [p \in Writers |-> <<>>]
    /\ wval = [p \in Writers |-> Nil]
    /\ todo = {}
    /\ fatal = FALSE

concFrame == <<op, raw, form, given, names, oid, nanf, err, panicked, key>>

Racing(p) ==
    \/ \E q \in Writers \ {p} : pc[q] = "writing"
    \/ p # Reader /\ pc[Reader] = "range"

RaceOutcomes(p) == IF Racing(p) THEN {TRUE, FALSE} ELSE {FALSE}

\* Set is entered: mut := &sync.Mutex{}
SetBegin(p) ==
    /\ ~fatal /\ pc[p] = "idle"
    /\ \E k \in RegKeys, x \in ConcSetValues :
          /\ wkey' = [wkey EXCEPT ![p] = k]
          /\ wval' = [wval EXCEPT ![p] = x]
    /\ mut' = [mut EXCEPT ![p] = NewMutex(p)]
    /\ pc' = [pc EXCEPT ![p] = "lock"]
    /\ UNCHANGED <<locked, todo, fatal, reg, term, ret, concFrame>>

\* New is entered: the input is parsed, and only a call whose parse returned
\* no error goes on to mut := &sync.Mutex{}
NewBegin(p) ==
    /\ ~fatal /\ pc[p] = "idle"
    /\ \E k \in RegKeys, s \in ConcNewInputs :
          LET r == NewObjectIdentifier(s)
          IN  /\ ~r.panic /\ r.err = "none"
              /\ wkey' = [wkey EXCEPT ![p] = k]
              /\ wval' = [wval EXCEPT ![p] = r.o]
    /\ mut' = [mut EXCEPT ![p] = NewMutex(p)]
    /\ pc' = [pc EXCEPT ![p] = "lock"]
    /\ UNCHANGED <<locked, todo, fatal, reg, term, ret, concFrame>>

\* mut.Lock(): blocks while the mutex is locked
Lock(p) ==
    /\ ~fatal /\ pc[p] = "lock"
    /\ mut[p] \notin locked
    /\ locked' = locked \cup {mut[p]}
    /\ pc' = [pc EXCEPT ![p] = "write"]
    /\ UNCHANGED <<mut, wkey, wval, todo, fatal, reg, term, ret, concFrame>>

\* o[key] = x begins
WriteBegin(p) ==
    /\ ~fatal /\ pc[p] = "write"
    /\ pc' = [pc EXCEPT ![p] = "writing"]
    /\ fatal' \in RaceOutcomes(p)
    /\ UNCHANGED <<mut, locked, wkey, wval, todo, reg, term, ret, concFrame>>

\* o[key] = x ends
WriteEnd(p) ==
    /\ ~fatal /\ pc[p] = "writing"
    /\ reg' = Set(reg, wkey[p], wval[p])
    /\ pc' = [pc EXCEPT ![p] = "unlock"]
    /\ UNCHANGED <<mut, locked, wkey, wval, todo, fatal, term, ret, concFrame>>

\* the deferred mut.Unlock(), and the return
Unlock(p) ==
    /\ ~fatal /\ pc[p] = "unlock"
    /\ locked' = locked \ {mut[p]}
    /\ mut' = [mut EXCEPT ![p] = "none"]
    /\ pc' = [pc EXCEPT ![p] = "idle"]
    /\ UNCHANGED <<wkey, wval, todo, fatal, reg, term, ret, concFrame>>

\* Get is entered: the range loop starts, with no lock taken
GetBegin ==
    /\ ~fatal /\ pc[Reader] = "idle"
    /\ \E t \in ConcTerms : term' = t
    /\ todo' = DOMAIN reg
    /\ pc' = [pc EXCEPT ![Reader] = "range"]
    /\ fatal' \in RaceOutcomes(Reader)
    /\ UNCHANGED <<mut, locked, wkey, wval, reg, ret, concFrame>>

\* one iteration of the range loop, or its end
GetNext ==
    /\ ~fatal /\ pc[Reader] = "range"
    /\ fatal' \in RaceOutcomes(Reader)
    /\ IF todo = {}
       THEN /\ ret' = [v |-> Nil, found |-> FALSE]
            /\ pc' = [pc EXCEPT ![Reader] = "idle"]
            /\ todo' = todo
       ELSE \E k \in todo :
               LET r == Get(reg, <<k>>, term)
               IN  IF r.found
                   THEN /\ ret' = [v |-> r.v, found |-> TRUE]
                        /\ pc' = [pc EXCEPT ![Reader] = "idle"]
                        /\ todo' = {}
                   ELSE /\ todo' = todo \ {k}
                        /\ UNCHANGED <<pc, ret>>
    /\ UNCHANGED <<mut, locked, wkey, wval, reg, term, concFrame>>

NextConc ==
    \/ \E p \in Writers :
          \/ SetBegin(p) \/ NewBegin(p) \/ Lock(p)
          \/ WriteBegin(p) \/ WriteEnd(p) \/ Unlock(p)
    \/ GetBegin
    \/ GetNext

SpecConc == InitConc /\ [][NextConc]_vars

\* C10: the mutex of Set and New excludes nobody.  Each call locks a mutex
\* of its own, so a caller at its Lock never finds the mutex locked, whoever
\* else is between Lock and Unlock; every caller past its Lock holds its own
\* mutex all the same.
C10_LockExcludesNobody ==
    \A p \in Writers :
        /\ pc[p] = "lock" => mut[p] \notin locked
        /\ pc[p] \in {"write", "writing", "unlock"} => mut[p] \in locked

\* C10 witness: both writers are between Lock and Unlock and in the middle
\* of their map write, while Get is in its range loop over the same map.
C10_Witness ==
    /\ ~fatal
    /\ \A p \in Writers : pc[p] = "writing" /\ mut[p] \in locked
    /\ pc[Reader] = "range" /\ todo # {}

=============================================================================
